---- MODULE Spec2Model ----
(***************************************************************************)
(* Wish-Mail: the birthday notifier job (src/app.py) and the roster admin  *)
(* panel (src/index.py), which share one employees table.                  *)
(*                                                                         *)
(* A nullable SQL / Python value is modelled as a sequence of length <= 1:  *)
(* <<>> is NULL / None and <<v>> is the value v.                           *)
(***************************************************************************)
EXTENDS Integers, Sequences, FiniteSets, TLC

\* ------------------------------------------------------------- bounds ----
\* Number of rows the durable table holds when the model starts.
NumRows == 3
\* Number of calendar years after the first one that the clock may reach.
MaxYear == 1
\* Number of add / bulk / delete operations of one admin session.
MaxOps == 2
\* Largest number of rows of an uploaded CSV file.
MaxBatch == 2

\* -------------------------------------------------- program constants ----
\* The "never wished" year given to a new record (index.py:27, 134, 197).
SENTINEL_YEAR == 1900

NULL == <<>>
Val(v) == <<v>>

\* ----------------------------------------------------------- calendar ----
\* The days of a year the model distinguishes, in calendar order.  They are
\* the month/day of the two birthdays the admin panel seeds (index.py:27-28).
DaysOfYear == << [month |-> 1, day |-> 1], [month |-> 12, day |-> 25] >>
FirstYear == SENTINEL_YEAR + 125

Names == {"Alice", "Bob"}
Emails == {"alice@mock.com", "bob@mock.com", "carol@mock.com"}

VARIABLES
    \* --- shared durable store
    employees,          \* committed rows of the employees table
    table_exists,       \* whether the database has an employees table
    \* --- the wall clock
    now,                \* [year, doy]: doy indexes DaysOfYear
    \* --- notifier job (app.py), one run at a time
    pc,                 \* position in run_birthday_wisher_demo
    env,                \* the required environment variables that are set
    today,              \* datetime.now() read at line 87
    current_year,       \* today.year, line 88
    wishes_sent_count,  \* line 89
    conn,               \* db connection: "none" | "open" | "closed"
    txn,                \* uncommitted UPDATEs of conn: set of <<id, year>>
    smtp_obj,           \* mail session: "none" | "open" | "closed"
    employees_to_wish,  \* result of fetchall(), line 106
    idx,                \* position of the for loop of line 122
    error,              \* the exception that ended the try block, or "none"
    printed,            \* the count printed at line 150, NULL while not printed
    \* --- history (observations of the run, not read by the program)
    attempts,           \* connections attempted in this run: subset of {"db","smtp"}
    sends,              \* this run's calls of create_and_send_email: [id, ok]
    marked,             \* ids whose UPDATE this run committed
    wished,             \* every <<id, year>> any run has committed
    \* --- admin panel session (index.py)
    mock_employees,     \* st.session_state.mock_employees: a list of records
    use_mock_db,        \* st.session_state.use_mock_db
    db_conn,            \* st.session_state.db_conn: NULL or <<"conn">>
    next_uuid,          \* the next fresh value uuid.uuid4() returns
    next_id,            \* the next value of the table's serial id
    ops,                \* number of add / bulk / delete operations so far
    last                \* the last admin operation: its arguments and result

nvars == << pc, env, today, current_year, wishes_sent_count, conn, txn, smtp_obj,
            employees_to_wish, idx, error, printed, attempts, sends, marked >>
avars == << mock_employees, use_mock_db, db_conn, next_uuid, next_id, ops, last >>
vars == << employees, table_exists, now, wished, nvars, avars >>

RequiredEnv == {"PG_CONN_STRING", "EMAIL_USER", "EMAIL_PASSWORD"}

\* ------------------------------------------------------------ helpers ----
RECURSIVE SeqOfSet(_)
\* All the orders in which a query without ORDER BY may return the set S.
Orderings(S) ==
    { s \in [1 .. Cardinality(S) -> S] : \A i, j \in DOMAIN s : i # j => s[i] # s[j] }

SeqOfSet(S) == IF S = {} THEN << >>
               ELSE LET x == CHOOSE y \in S : TRUE IN << x >> \o SeqOfSet(S \ {x})

Today(clock) == [year |-> clock.year,
                 month |-> DaysOfYear[clock.doy].month,
                 day |-> DaysOfYear[clock.doy].day]

\* Mutant of Eligible: the last_wished_year condition is dropped.
EligibleIgnoringYear(row, tdy, year) ==
    /\ row.birthday.month = tdy.month
    /\ row.birthday.day = tdy.day

\* The WHERE clause of the SELECT of app.py:98-104.
Eligible(row, tdy, year) ==
    /\ row.birthday.month = tdy.month
    /\ row.birthday.day = tdy.day
    /\ (row.last_wished_year = NULL \/ row.last_wished_year # Val(year))

\* The SELECT id, name, email of app.py:98-106.
SelectEligible(table, tdy, year) ==
    { [id |-> r.id, name |-> r.name, email |-> r.email] :
        r \in { q \in table : Eligible(q, tdy, year) } }

\* UPDATE employees SET last_wished_year = year WHERE id = id (app.py:127-132).
ApplyUpdate(table, id, year) ==
    { IF r.id = id THEN [r EXCEPT !.last_wished_year = Val(year)] ELSE r : r \in table }

RECURSIVE ApplyAll(_, _)
ApplyAll(table, updates) ==
    IF updates = {} THEN table
    ELSE LET u == CHOOSE x \in updates : TRUE
         IN ApplyAll(ApplyUpdate(table, u[1], u[2]), updates \ {u})

\* ---------------------------------------------------------------- Init ----
\* The durable table before the first run: NumRows rows with distinct ids and
\* emails.  Rows 1..3 share the birthday 1 January, so that one run has
\* three eligible employees; further rows are born on 25 December.  The rows
\* were never wished: last_wished_year is NULL in the odd rows and the
\* sentinel in the even ones.
JAN_1 == [year |-> 1990, month |-> 1, day |-> 1]
DEC_25 == [year |-> 1985, month |-> 12, day |-> 25]
Birthdays == {JAN_1, DEC_25}

InitialTable ==
    LET mail == SeqOfSet(Emails)
        name == SeqOfSet(Names)
    IN { [id |-> i,
          name |-> name[((i - 1) % Len(name)) + 1],
          email |-> IF i <= Len(mail) THEN mail[i] ELSE "extra@mock.com",
          birthday |-> IF i <= 3 THEN JAN_1 ELSE DEC_25,
          last_wished_year |-> IF i % 2 = 1 THEN NULL ELSE Val(SENTINEL_YEAR)] :
         i \in 1 .. NumRows }

\* ------------------------------------------------- admin panel state ----
\* index.py:18-29: the session starts in mock mode with two seeded records.
\* A uuid4() is modelled as the next unused number.
SeedEmployees ==
    << [id |-> 1, name |-> "Alice", email |-> "alice@mock.com", birthday |-> JAN_1,
        last_wished_year |-> Val(SENTINEL_YEAR)],
       [id |-> 2, name |-> "Bob", email |-> "bob@mock.com", birthday |-> DEC_25,
        last_wished_year |-> Val(SENTINEL_YEAR)] >>

\* raised: whether an except branch of the operation ran (st.error shown).
NoOp == [op |-> "none", args |-> << >>, ret |-> << >>, raised |-> FALSE]

AdminInit ==
    /\ mock_employees = SeedEmployees
    /\ use_mock_db = TRUE
    /\ db_conn = NULL
    /\ next_uuid = Len(SeedEmployees) + 1
    /\ next_id = NumRows + 1
    /\ ops = 0
    /\ last = NoOp

NotifierIdle ==
    /\ pc = "idle"
    /\ env = {}
    /\ today = NULL
    /\ current_year = NULL
    /\ wishes_sent_count = 0
    /\ conn = "none"
    /\ txn = {}
    /\ smtp_obj = "none"
    /\ employees_to_wish = << >>
    /\ idx = 0
    /\ error = "none"
    /\ printed = NULL
    /\ attempts = {}
    /\ sends = << >>
    /\ marked = {}

\* The database the notifier and the panel connect to may or may not have an
\* employees table yet; no statement of either program creates one.
Init ==
    /\ table_exists \in BOOLEAN
    /\ employees = IF table_exists THEN InitialTable ELSE {}
    /\ now = [year |-> FirstYear, doy |-> 1]
    /\ wished = {}
    /\ NotifierIdle
    /\ AdminInit

\* --------------------------------------------------------------- clock ----
\* Time passes: the next modelled day of this year, or New Year's Day.
Tick ==
    /\ \/ /\ now.doy < Len(DaysOfYear)
          /\ now' = [now EXCEPT !.doy = now.doy + 1]
       \/ /\ now.year < FirstYear + MaxYear
          /\ now' = [year |-> now.year + 1, doy |-> 1]
    /\ UNCHANGED << employees, table_exists, wished, nvars, avars >>

\* The outcomes of a statement on the employees table: it runs, or it raises;
\* while the database has no such table it can only raise (UndefinedTable).
StatementOutcomes == IF table_exists THEN BOOLEAN ELSE {FALSE}

\* ------------------------------------------------------- notifier job ----
\* Leaving the with-block of db_connect (app.py:39-42) by an exception e:
\* the connection, if one was opened, is closed, which discards its open
\* transaction; control goes to the except clauses of lines 144-147 and then
\* to the summary of line 149.
Raise(e) ==
    /\ error' = e
    /\ conn' = IF conn = "open" THEN "closed" ELSE conn
    /\ txn' = {}
    /\ pc' = "summary"

\* Mutant of RunStart: the configuration check of line 83 is missing.
RunStartUnchecked ==
    /\ pc = "idle"
    /\ \E set \in SUBSET RequiredEnv : env' = set
    /\ pc' = "db_connect"
    /\ today' = Val(Today(now))
    /\ current_year' = Val(now.year)
    /\ wishes_sent_count' = 0
    /\ UNCHANGED << employees, table_exists, now, wished, conn, txn, smtp_obj, employees_to_wish,
                    idx, error, printed, attempts, sends, marked >>
    /\ UNCHANGED avars

\* app.py:83-91.  The process is started with some of the required
\* environment variables set.
RunStart ==
    /\ pc = "idle"
    /\ \E set \in SUBSET RequiredEnv :
        /\ env' = set
        /\ IF set # RequiredEnv
           THEN /\ pc' = "done"
                /\ error' = "config"
                /\ UNCHANGED << today, current_year >>
           ELSE /\ pc' = "db_connect"
                /\ today' = Val(Today(now))
                /\ current_year' = Val(now.year)
                /\ UNCHANGED error
    /\ wishes_sent_count' = 0
    /\ UNCHANGED << employees, table_exists, now, wished, conn, txn, smtp_obj, employees_to_wish,
                    idx, printed, attempts, sends, marked >>
    /\ UNCHANGED avars

\* app.py:29-38, 94: psycopg2.connect succeeds or raises.
DbConnect ==
    /\ pc = "db_connect"
    /\ attempts' = attempts \cup {"db"}
    /\ \E ok \in BOOLEAN :
        IF ok
        THEN /\ conn' = "open"
             /\ pc' = "select"
             /\ UNCHANGED << error, txn >>
        ELSE Raise("db_connect")
    /\ UNCHANGED << employees, table_exists, now, wished, env, today, current_year,
                    wishes_sent_count, smtp_obj, employees_to_wish, idx, printed,
                    sends, marked >>
    /\ UNCHANGED avars

\* app.py:95-112: the SELECT runs or raises; no eligible row returns at once.
RunSelect ==
    /\ pc = "select"
    /\ \E ok \in StatementOutcomes :
        IF ~ok
        THEN /\ Raise("query")
             /\ UNCHANGED employees_to_wish
        ELSE \E rows \in Orderings(SelectEligible(employees, today[1], current_year[1])) :
               /\ employees_to_wish' = rows
               /\ IF rows = << >>
                  THEN /\ pc' = "done"
                       /\ conn' = "closed"
                       /\ UNCHANGED << error, txn >>
                  ELSE /\ pc' = "smtp_connect"
                       /\ UNCHANGED << error, conn, txn >>
    /\ UNCHANGED << employees, table_exists, now, wished, env, today, current_year,
                    wishes_sent_count, smtp_obj, idx, printed, attempts, sends, marked >>
    /\ UNCHANGED avars

\* app.py:116: smtplib.SMTP(host, port) connects or raises.
SmtpConnect ==
    /\ pc = "smtp_connect"
    /\ attempts' = attempts \cup {"smtp"}
    /\ \E ok \in BOOLEAN :
        IF ok
        THEN /\ smtp_obj' = "open"
             /\ pc' = "starttls"
             /\ UNCHANGED << error, conn, txn >>
        ELSE /\ Raise("smtp_connect")
             /\ UNCHANGED smtp_obj
    /\ UNCHANGED << employees, table_exists, now, wished, env, today, current_year,
                    wishes_sent_count, employees_to_wish, idx, printed, sends, marked >>
    /\ UNCHANGED avars

\* app.py:117: starttls() succeeds or raises.
SmtpStarttls ==
    /\ pc = "starttls"
    /\ \E ok \in BOOLEAN :
        IF ok
        THEN /\ pc' = "login"
             /\ UNCHANGED << error, conn, txn >>
        ELSE Raise("starttls")
    /\ UNCHANGED << employees, table_exists, now, wished, env, today, current_year,
                    wishes_sent_count, smtp_obj, employees_to_wish, idx, printed,
                    attempts, sends, marked >>
    /\ UNCHANGED avars

\* app.py:118-119: login() succeeds or raises (SMTPAuthenticationError).
SmtpLogin ==
    /\ pc = "login"
    /\ \E ok \in BOOLEAN :
        IF ok
        THEN /\ pc' = "loop"
             /\ idx' = 1
             /\ UNCHANGED << error, conn, txn >>
        ELSE /\ Raise("login")
             /\ UNCHANGED idx
    /\ UNCHANGED << employees, table_exists, now, wished, env, today, current_year,
                    wishes_sent_count, smtp_obj, employees_to_wish, printed,
                    attempts, sends, marked >>
    /\ UNCHANGED avars

\* app.py:46-77: sendmail succeeds (True) or raises, which is caught (False).
create_and_send_email(ok) == ok

\* app.py:122-125, 136: the next employee is taken and the email is sent.
SendEmail ==
    /\ pc = "loop"
    /\ idx <= Len(employees_to_wish)
    /\ \E ok \in BOOLEAN :
        /\ sends' = Append(sends, [id |-> employees_to_wish[idx].id,
                                   ok |-> create_and_send_email(ok)])
        /\ pc' = IF create_and_send_email(ok) THEN "update" ELSE "rollback"
    /\ UNCHANGED << employees, table_exists, now, wished, env, today, current_year,
                    wishes_sent_count, conn, txn, smtp_obj, employees_to_wish, idx,
                    error, printed, attempts, marked >>
    /\ UNCHANGED avars

\* app.py:127-133: the UPDATE is executed, then the counter is incremented.
ExecuteUpdate ==
    /\ pc = "update"
    /\ \E ok \in StatementOutcomes :
        IF ok
        THEN /\ txn' = txn \cup {<< employees_to_wish[idx].id, current_year[1] >>}
             /\ wishes_sent_count' = wishes_sent_count + 1
             /\ pc' = "commit"
             /\ UNCHANGED << error, conn >>
        ELSE /\ Raise("update")
             /\ UNCHANGED wishes_sent_count
    /\ UNCHANGED << employees, table_exists, now, wished, env, today, current_year, smtp_obj,
                    employees_to_wish, idx, printed, attempts, sends, marked >>
    /\ UNCHANGED avars

\* app.py:134-135: conn.commit() makes the UPDATE durable, or raises.
Commit ==
    /\ pc = "commit"
    /\ \E ok \in BOOLEAN :
        IF ok
        THEN /\ employees' = ApplyAll(employees, txn)
             /\ wished' = wished \cup
                    { u \in txn : \E r \in employees : r.id = u[1] }
             /\ marked' = marked \cup
                    { u[1] : u \in { v \in txn : \E r \in employees : r.id = v[1] } }
             /\ txn' = {}
             /\ idx' = idx + 1
             /\ pc' = "loop"
             /\ UNCHANGED << error, conn >>
        ELSE /\ Raise("commit")
             /\ UNCHANGED << employees, wished, marked, idx >>
    /\ UNCHANGED << table_exists, now, env, today, current_year, wishes_sent_count, smtp_obj,
                    employees_to_wish, printed, attempts, sends >>
    /\ UNCHANGED avars

\* Mutant of Rollback: a failed send leaves the loop (a break).
RollbackAndBreak ==
    /\ pc = "rollback"
    /\ txn' = {}
    /\ idx' = Len(employees_to_wish) + 1
    /\ pc' = "loop"
    /\ UNCHANGED << employees, table_exists, now, wished, env, today, current_year,
                    wishes_sent_count, conn, smtp_obj, employees_to_wish, error,
                    printed, attempts, sends, marked >>
    /\ UNCHANGED avars

\* app.py:137-138: conn.rollback() after a failed send, or it raises.
Rollback ==
    /\ pc = "rollback"
    /\ \E ok \in BOOLEAN :
        IF ok
        THEN /\ txn' = {}
             /\ idx' = idx + 1
             /\ pc' = "loop"
             /\ UNCHANGED << error, conn >>
        ELSE /\ Raise("rollback")
             /\ UNCHANGED idx
    /\ UNCHANGED << employees, table_exists, now, wished, env, today, current_year,
                    wishes_sent_count, smtp_obj, employees_to_wish, printed,
                    attempts, sends, marked >>
    /\ UNCHANGED avars

\* app.py:140-142 and 39-42: after the last employee the mail session is quit
\* and the with-block closes the connection.
SmtpQuit ==
    /\ pc = "loop"
    /\ idx > Len(employees_to_wish)
    /\ smtp_obj' = "closed"
    /\ conn' = "closed"
    /\ txn' = {}
    /\ pc' = "summary"
    /\ UNCHANGED << employees, table_exists, now, wished, env, today, current_year,
                    wishes_sent_count, employees_to_wish, idx, error, printed,
                    attempts, sends, marked >>
    /\ UNCHANGED avars

\* app.py:149-156: the summary with the count is printed.
PrintSummary ==
    /\ pc = "summary"
    /\ printed' = Val(wishes_sent_count)
    /\ pc' = "done"
    /\ UNCHANGED << employees, table_exists, now, wished, env, today, current_year,
                    wishes_sent_count, conn, txn, smtp_obj, employees_to_wish, idx,
                    error, attempts, sends, marked >>
    /\ UNCHANGED avars

\* app.py:159-160: the process exits; the scheduler may start another run.
Exit ==
    /\ pc = "done"
    /\ pc' = "idle"
    /\ env' = {}
    /\ today' = NULL
    /\ current_year' = NULL
    /\ wishes_sent_count' = 0
    /\ conn' = "none"
    /\ txn' = {}
    /\ smtp_obj' = "none"
    /\ employees_to_wish' = << >>
    /\ idx' = 0
    /\ error' = "none"
    /\ printed' = NULL
    /\ attempts' = {}
    /\ sends' = << >>
    /\ marked' = {}
    /\ UNCHANGED << employees, table_exists, now, wished >>
    /\ UNCHANGED avars

NotifierNext ==
    \/ RunStart
    \/ DbConnect
    \/ RunSelect
    \/ SmtpConnect
    \/ SmtpStarttls
    \/ SmtpLogin
    \/ SendEmail
    \/ ExecuteUpdate
    \/ Commit
    \/ Rollback
    \/ SmtpQuit
    \/ PrintSummary
    \/ Exit
    \/ Tick

Spec == Init /\ [][NotifierNext]_vars
\* ================================================== admin panel =========
\* index.py:34-43: psycopg2.connect returns a connection, or None on error.
establish_db_connection(ok) == IF ok THEN Val("conn") ELSE NULL

\* index.py:45-64: as written the body builds an upsert statement and calls
\* execute_batch with the undefined name data_to_upload; the exception is
\* caught at line 60 and the transaction rolled back: no statement reaches
\* the database.  db is the database the connection leads to: whether it has
\* the employees table, and the table's rows.
init_real_db(db) == db

\* index.py:69-79: on a script run in mock mode with a database url in
\* st.secrets, a connection is attempted and the session switches on success;
\* a failed attempt only shows a message.
AutoConnect ==
    /\ use_mock_db
    /\ \E ok \in BOOLEAN :
        LET conn_attempt == establish_db_connection(ok) IN
        IF conn_attempt # NULL
        THEN LET db == init_real_db([exists |-> table_exists, rows |-> employees])
             IN /\ table_exists' = db.exists
                /\ employees' = db.rows
                /\ db_conn' = conn_attempt
                /\ use_mock_db' = FALSE
                /\ last' = [op |-> "connect", args |-> << "secrets" >>,
                            ret |-> << TRUE >>, raised |-> FALSE]
        ELSE UNCHANGED << employees, table_exists, db_conn, use_mock_db, last >>
    /\ UNCHANGED << now, wished, nvars, mock_employees, next_uuid, next_id, ops >>

\* index.py:84-119: the "Connect & Initialize DB" button with the typed url;
\* without a url, or when the connection fails, only a message is shown.
connection_ui ==
    /\ \E url_given \in BOOLEAN, ok \in BOOLEAN :
        LET conn_attempt == establish_db_connection(ok) IN
        IF url_given /\ conn_attempt # NULL
        THEN LET db == init_real_db([exists |-> table_exists, rows |-> employees])
             IN /\ table_exists' = db.exists
                /\ employees' = db.rows
                /\ db_conn' = conn_attempt
                /\ use_mock_db' = FALSE
                /\ last' = [op |-> "connect", args |-> << "manual" >>,
                            ret |-> << TRUE >>, raised |-> FALSE]
        ELSE UNCHANGED << employees, table_exists, db_conn, use_mock_db, last >>
    /\ UNCHANGED << now, wished, nvars, mock_employees, next_uuid, next_id, ops >>

\* ----------------------------------------------------- store helpers ----
HasEmail(list, email) == \E i \in 1 .. Len(list) : list[i].email = email

\* index.py:134 / 197: new_emp.
new_emp(uuid, name, email, birthday) ==
    [id |-> uuid, name |-> name, email |-> email, birthday |-> birthday,
     last_wished_year |-> Val(SENTINEL_YEAR)]

\* The column default of last_wished_year that an INSERT naming only
\* (name, email, birthday) leaves in the new row.
COLUMN_DEFAULT == Val(SENTINEL_YEAR)

\* Mutant of Upsert: the conflicting row is replaced by a fresh one, so its
\* last_wished_year goes back to the column default.
UpsertResettingYear(table, id, name, email, birthday) ==
    IF \E r \in table : r.email = email
    THEN { IF r.email = email
           THEN [r EXCEPT !.name = name, !.birthday = birthday,
                          !.last_wished_year = COLUMN_DEFAULT]
           ELSE r : r \in table }
    ELSE table \cup { [id |-> id, name |-> name, email |-> email,
                       birthday |-> birthday, last_wished_year |-> COLUMN_DEFAULT] }

\* INSERT ... ON CONFLICT (email) DO UPDATE SET name, birthday
\* (index.py:142-148) applied to the table.
Upsert(table, id, name, email, birthday) ==
    IF \E r \in table : r.email = email
    THEN { IF r.email = email
           THEN [r EXCEPT !.name = name, !.birthday = birthday]
           ELSE r : r \in table }
    ELSE table \cup { [id |-> id, name |-> name, email |-> email,
                       birthday |-> birthday, last_wished_year |-> COLUMN_DEFAULT] }

\* --------------------------------------------------------- add_employee --
\* index.py:129-136: the mock branch of add_employee.
add_employee_mock(list, uuid, name, email, birthday) ==
    IF HasEmail(list, email)
    THEN [store |-> list, ret |-> FALSE]
    ELSE [store |-> Append(list, new_emp(uuid, name, email, birthday)), ret |-> TRUE]

\* index.py:137-157: the real branch of add_employee; the statement or the
\* commit raises (ok = FALSE, rolled back) or the upsert is committed.
add_employee_real(table, id, name, email, birthday, ok) ==
    IF ok
    THEN [store |-> Upsert(table, id, name, email, birthday), ret |-> TRUE]
    ELSE [store |-> table, ret |-> FALSE]

\* index.py:127-157, called from the form of lines 327-334.
add_employee ==
    /\ ops < MaxOps
    /\ ops' = ops + 1
    /\ \E name \in Names, email \in Emails, birthday \in Birthdays :
        IF use_mock_db
        THEN LET r == add_employee_mock(mock_employees, next_uuid, name, email, birthday)
                 grew == Len(r.store) > Len(mock_employees)
             IN /\ mock_employees' = r.store
                /\ next_uuid' = IF grew THEN next_uuid + 1 ELSE next_uuid
                /\ last' = [op |-> "add", args |-> << name, email, birthday >>,
                            ret |-> << r.ret >>, raised |-> FALSE]
                /\ UNCHANGED << employees, next_id >>
        ELSE \E ok \in StatementOutcomes :
             LET r == add_employee_real(employees, next_id, name, email, birthday, ok)
                 grew == Cardinality(r.store) > Cardinality(employees)
             IN /\ employees' = r.store
                /\ next_id' = IF grew THEN next_id + 1 ELSE next_id
                /\ last' = [op |-> "add", args |-> << name, email, birthday >>,
                            ret |-> << r.ret >>, raised |-> ~ok]
                /\ UNCHANGED << mock_employees, next_uuid >>
    /\ UNCHANGED << table_exists, now, wished, nvars, use_mock_db, db_conn >>

\* ------------------------------------------------------ bulk_upload_csv --
\* The rows of an uploaded CSV file, as pandas.read_csv returns them: an
\* empty email cell is NaN (NULL here); the birthday cell is text.  Two valid
\* rows share an email and differ in name and birthday, one valid row hits a
\* seeded email, one row has no email and one has an unparseable date.
CsvRows ==
    { [name |-> "Bob", email |-> Val("carol@mock.com"), birthday |-> "1985-12-25"],
      [name |-> "Alice", email |-> Val("carol@mock.com"), birthday |-> "1990-01-01"],
      [name |-> "Bob", email |-> Val("alice@mock.com"), birthday |-> "1985-12-25"],
      [name |-> "Bob", email |-> NULL, birthday |-> "1990-01-01"],
      [name |-> "Alice", email |-> Val("bob@mock.com"), birthday |-> "bad-date"] }
SeqsUpTo(S, n) == UNION { [1 .. k -> S] : k \in 0 .. n }
\* A DataFrame: whether it has the three required columns, and its rows.
DataFrames ==
    [columns : {TRUE}, rows : SeqsUpTo(CsvRows, MaxBatch)]
        \cup [columns : {FALSE}, rows : SeqsUpTo(CsvRows, 1)]

\* pd.to_datetime(..., errors='coerce').dt.date (index.py:174): the date the
\* text denotes, or NaT (NULL) when it does not parse.
to_datetime(text) ==
    CASE text = "1990-01-01" -> Val(JAN_1)
      [] text = "1985-12-25" -> Val(DEC_25)
      [] OTHER -> NULL

\* index.py:170: df[required_cols].dropna(subset=['email']).
dropna_email(rows) == SelectSeq(rows, LAMBDA r : r.email # NULL)
\* index.py:174-175: parse the birthdays and drop the rows that are NaT.
dropna_birthday(rows) == SelectSeq(rows, LAMBDA r : to_datetime(r.birthday) # NULL)
\* index.py:180: the (name, email, birthday) tuples of the remaining rows.
data_to_upload(rows) ==
    [i \in 1 .. Len(rows) |->
        << rows[i].name, rows[i].email[1], to_datetime(rows[i].birthday)[1] >>]

\* Index of the first record of list with this email, 0 if there is none.
FirstWithEmail(list, email) ==
    IF HasEmail(list, email)
    THEN CHOOSE i \in 1 .. Len(list) :
            /\ list[i].email = email
            /\ \A j \in 1 .. (i - 1) : list[j].email # email
    ELSE 0

\* Mutant of bulk_upsert_mock: every row is appended, none looked up.
RECURSIVE bulk_append_mock(_, _, _, _, _)
bulk_append_mock(list, uuid, data, inserted, updated) ==
    IF data = << >>
    THEN [store |-> list, uuid |-> uuid, inserted |-> inserted, updated |-> updated]
    ELSE bulk_append_mock(Append(list, new_emp(uuid, Head(data)[1], Head(data)[2],
                                               Head(data)[3])),
                          uuid + 1, Tail(data), inserted + 1, updated)

\* index.py:184-199: the mock upsert loop over data_to_upload.
RECURSIVE bulk_upsert_mock(_, _, _, _, _)
bulk_upsert_mock(list, uuid, data, inserted, updated) ==
    IF data = << >>
    THEN [store |-> list, uuid |-> uuid, inserted |-> inserted, updated |-> updated]
    ELSE LET name == Head(data)[1]
             email == Head(data)[2]
             birthday == Head(data)[3]
             i == FirstWithEmail(list, email)
         IN IF i # 0
            THEN bulk_upsert_mock(
                    [list EXCEPT ![i] = [@ EXCEPT !.name = name, !.birthday = birthday]],
                    uuid, Tail(data), inserted, updated + 1)
            ELSE bulk_upsert_mock(
                    Append(list, new_emp(uuid, name, email, birthday)),
                    uuid + 1, Tail(data), inserted + 1, updated)

\* index.py:210-219: the statement has the single placeholder "VALUES %s"
\* while each element of data_to_upload carries three parameters, so
\* execute_batch cannot bind a row and raises for every non-empty batch.
execute_batch_ok(data) == data = << >>

\* index.py:204-231: the real branch of bulk_upload_csv; ok = FALSE is a
\* failing database call.  Whenever it does not raise, no row was written.
bulk_upload_real(table, data, ok) ==
    IF ok /\ execute_batch_ok(data)
    THEN [store |-> table, ret |-> << Len(data), 0, 0 >>]
    ELSE [store |-> table, ret |-> << 0, 0, Len(data) >>]

\* index.py:159-231.
bulk_upload_csv ==
    /\ ops < MaxOps
    /\ ops' = ops + 1
    /\ \E df \in DataFrames :
        LET kept == dropna_birthday(dropna_email(df.rows))
            data == data_to_upload(kept)
        IN
        IF df.rows = << >> \/ ~df.columns
        THEN /\ last' = [op |-> "bulk", args |-> << df >>, ret |-> << 0, 0, 0 >>,
                         raised |-> FALSE]
             /\ UNCHANGED << employees, next_id, mock_employees, next_uuid >>
        ELSE IF use_mock_db
        THEN LET r == bulk_upsert_mock(mock_employees, next_uuid, data, 0, 0)
             IN /\ mock_employees' = r.store
                /\ next_uuid' = r.uuid
                /\ last' = [op |-> "bulk", args |-> << df >>,
                            ret |-> << r.inserted, r.updated,
                                       Len(kept) - r.inserted - r.updated >>,
                            raised |-> FALSE]
                /\ UNCHANGED << employees, next_id >>
        ELSE \E ok \in BOOLEAN :
             LET r == bulk_upload_real(employees, data, ok)
             IN /\ employees' = r.store
                /\ last' = [op |-> "bulk", args |-> << df >>, ret |-> r.ret,
                            raised |-> ~(ok /\ execute_batch_ok(data))]
                /\ UNCHANGED << next_id, mock_employees, next_uuid >>
    /\ UNCHANGED << table_exists, now, wished, nvars, use_mock_db, db_conn >>

\* ------------------------------------------------------ delete_employee --
\* Mutant of delete_employee_mock: only the first match is removed.
delete_first_mock(list, name) ==
    LET hits == { i \in 1 .. Len(list) : list[i].name = name }
        first == CHOOSE i \in hits : \A j \in hits : i <= j
        kept == IF hits = {} THEN list
                ELSE SubSeq(list, 1, first - 1) \o SubSeq(list, first + 1, Len(list))
    IN [store |-> kept, ret |-> Len(kept) < Len(list)]

\* index.py:272-275: the mock branch of delete_employee.
delete_employee_mock(list, name) ==
    LET kept == SelectSeq(list, LAMBDA emp : emp.name # name)
    IN [store |-> kept, ret |-> Len(kept) < Len(list)]

\* index.py:276-290: the real branch; ok = FALSE is DELETE or commit raising.
delete_employee_real(table, name, ok) ==
    IF ok
    THEN LET rows_deleted == Cardinality({ r \in table : r.name = name })
         IN [store |-> { r \in table : r.name # name }, ret |-> rows_deleted > 0]
    ELSE [store |-> table, ret |-> FALSE]

\* index.py:270-290.
delete_employee ==
    /\ ops < MaxOps
    /\ ops' = ops + 1
    /\ \E name \in Names :
        IF use_mock_db
        THEN LET r == delete_employee_mock(mock_employees, name)
             IN /\ mock_employees' = r.store
                /\ last' = [op |-> "delete", args |-> << name >>, ret |-> << r.ret >>,
                            raised |-> FALSE]
                /\ UNCHANGED employees
        ELSE \E ok \in StatementOutcomes :
             LET r == delete_employee_real(employees, name, ok)
             IN /\ employees' = r.store
                /\ last' = [op |-> "delete", args |-> << name >>, ret |-> << r.ret >>,
                            raised |-> ~ok]
                /\ UNCHANGED mock_employees
    /\ UNCHANGED << table_exists, now, wished, nvars, use_mock_db, db_conn, next_uuid, next_id >>

AdminNext ==
    \/ AutoConnect
    \/ connection_ui
    \/ add_employee
    \/ bulk_upload_csv
    \/ delete_employee

SpecAdmin == Init /\ [][AdminNext]_vars

\* ------------------------------------------- both programs together ----
\* The notifier job and an admin session run as separate processes against
\* the same database.  The table starts with its first row only (or does not
\* exist); the session adds further rows.
InitAll ==
    /\ table_exists \in BOOLEAN
    /\ employees = IF table_exists THEN { r \in InitialTable : r.id = 1 } ELSE {}
    /\ now = [year |-> FirstYear, doy |-> 1]
    /\ wished = {}
    /\ NotifierIdle
    /\ AdminInit

\* The notifier reads the table in RunSelect and writes it in Commit; its
\* other steps touch no state the session reads, and a step of the session
\* touches no state of the notifier.  A step of the session taken anywhere
\* else commutes with the notifier's steps back to the start of the run or on
\* to the next Commit (or to the end of the run), so only the interleavings
\* between runs and before a Commit are distinguished.
AtDatabaseAccess == pc \in {"idle", "commit"}

AdminBesideNotifier ==
    /\ AtDatabaseAccess
    /\ AdminNext

\* The clock is read by RunStart only (app.py:87): a Tick within a run
\* commutes with the rest of the run, so the clock is advanced between runs.
NotifierBesideAdmin ==
    /\ NotifierNext
    /\ now' # now => pc = "idle"

Next ==
    \/ NotifierBesideAdmin
    \/ AdminBesideNotifier

SpecAll == InitAll /\ [][Next]_vars

\* ================================================== notifier claims ======
Row(id) == CHOOSE r \in employees : r.id = id
HasRow(id) == \E r \in employees : r.id = id
\* The entries of employees_to_wish the loop has not finished with.
Remaining == { k \in 1 .. Len(employees_to_wish) : k >= idx }
\* The ids whose send reported success in this run.
SentOk == { sends[k].id : k \in { j \in 1 .. Len(sends) : sends[j].ok } }
NumOk == Cardinality({ j \in 1 .. Len(sends) : sends[j].ok })
EligibleIds == { employees_to_wish[k].id : k \in 1 .. Len(employees_to_wish) }
LoopEntered == idx >= 1
SetupErrors == {"config", "db_connect", "smtp_connect", "starttls", "login"}

\* C1: once a run has committed last_wished_year = Y for a record, no later
\* run whose current year is Y selects that record or sends it an email: every
\* entry of employees_to_wish still to be processed is a record that no run
\* has committed for the run's current year, whose birthday month and day are
\* today's and whose last_wished_year is NULL or differs from the current year.
C1_NoReselectionWithinYear ==
    \A k \in Remaining :
        LET id == employees_to_wish[k].id IN
        /\ << id, current_year[1] >> \notin wished
        /\ HasRow(id)
        /\ Row(id).birthday.month = today[1].month
        /\ Row(id).birthday.day = today[1].day
        /\ (Row(id).last_wished_year = NULL
              \/ Row(id).last_wished_year # current_year)

\* A later run of the same year has selected other records and left out one
\* whose birthday is today and which an earlier run committed for this year.
C1_Witness ==
    /\ pc = "smtp_connect"
    /\ employees_to_wish # << >>
    /\ \E r \in employees :
        /\ r.birthday.month = today[1].month
        /\ r.birthday.day = today[1].day
        /\ << r.id, current_year[1] >> \in wished
        /\ r.id \notin EligibleIds

\* C2: when a run has ended, an eligible record's last_wished_year has been
\* committed to the current year by this run if and only if its send
\* reported success, on every path, a failed UPDATE or commit included.
C2_MarkedIffSendSucceeded ==
    pc = "done" =>
        \A id \in EligibleIds :
            (id \in marked /\ Row(id).last_wished_year = current_year)
                <=> id \in SentOk

C8_AllClosedAtExit ==
    pc = "done" => (conn # "open" /\ smtp_obj # "open")

\* C9: a run that ended by missing configuration, a failed database
\* connection or a failed mail connection / STARTTLS / login has sent no email
\* and committed no mark, and with missing configuration it attempted no
\* connection; a send or a change of the table happens only in a run with
\* the full configuration, an open connection and an authenticated session.
C9_FatalSetupErrorSendsNothing ==
    /\ [](pc \in {"summary", "done"} /\ error \in SetupErrors =>
            /\ sends = << >>
            /\ marked = {}
            /\ wishes_sent_count = 0
            /\ txn = {}
            /\ (error = "config" =>
                    attempts = {} /\ conn = "none" /\ smtp_obj = "none")
            /\ (error = "db_connect" => conn = "none" /\ "smtp" \notin attempts))
    /\ [][(employees' # employees \/ Len(sends') > Len(sends)) =>
            /\ env = RequiredEnv
            /\ conn = "open"
            /\ smtp_obj = "open"
            /\ error = "none"
            /\ pc \in {"loop", "commit"}]_vars

\* Eligible employees were found, the login was refused and the run ended.
C9_Witness ==
    /\ pc = "done"
    /\ error = "login"
    /\ employees_to_wish # << >>

\* C10: the count printed at the end of a run is the number of sends that
\* reported success in the run.
C10_CountEqualsSuccessfulSends ==
    (pc = "done" /\ printed # NULL) => printed = Val(NumOk)
\* ================================================ admin panel claims =====
\* The records of the active backend with this email / this name, counted
\* with multiplicity, before (unprimed) and after (primed) a step.
MockWith(list, P(_)) == { i \in 1 .. Len(list) : P(list[i]) }
CountEmail(mock, list, table, email) ==
    IF mock THEN Cardinality(MockWith(list, LAMBDA e : e.email = email))
    ELSE Cardinality({ r \in table : r.email = email })
CountName(mock, list, table, name) ==
    IF mock THEN Cardinality(MockWith(list, LAMBDA e : e.name = name))
    ELSE Cardinality({ r \in table : r.name = name })
StoreSize(mock, list, table) == IF mock THEN Len(list) ELSE Cardinality(table)
\* Some record with this email has this name and birthday.
Holds(mock, list, table, name, email, birthday) ==
    IF mock
    THEN \E i \in 1 .. Len(list) :
            list[i].email = email /\ list[i].name = name /\ list[i].birthday = birthday
    ELSE \E r \in table : r.email = email /\ r.name = name /\ r.birthday = birthday
IsAdminOp(kind) == last'.op = kind /\ ops' = ops + 1

\* C4: when add_employee is called twice in a row with the same email and a
\* different name or birthday, both calls return True and afterwards exactly
\* one record has that email, with the second call's name and birthday.
C4_UpsertTwiceKeepsSecond ==
    [][(/\ last.op = "add"
        /\ IsAdminOp("add")
        /\ last'.args[2] = last.args[2]
        /\ (last'.args[1] # last.args[1] \/ last'.args[3] # last.args[3]))
       => (/\ last.ret = << TRUE >>
           /\ last'.ret = << TRUE >>
           /\ CountEmail(use_mock_db', mock_employees', employees', last'.args[2]) = 1
           /\ Holds(use_mock_db', mock_employees', employees',
                    last'.args[1], last'.args[2], last'.args[3]))]_vars

\* C5: no two records of the in-memory store have the same email.
C5_MockEmailsUnique ==
    \A i, j \in 1 .. Len(mock_employees) :
        i # j => mock_employees[i].email # mock_employees[j].email

ValidRow(row) == row.email # NULL /\ to_datetime(row.birthday) # NULL

\* A bulk upload on the in-memory store whose batch has two valid rows with
\* the same email has been applied, and one record has that email.
C5_Witness ==
    /\ use_mock_db
    /\ last.op = "bulk"
    /\ last.args[1].columns
    /\ LET rows == last.args[1].rows IN
       \E i, j \in 1 .. Len(rows) :
            /\ i < j
            /\ ValidRow(rows[i]) /\ ValidRow(rows[j])
            /\ rows[i].email = rows[j].email
            /\ HasEmail(mock_employees, rows[j].email[1])
            /\ mock_employees[FirstWithEmail(mock_employees, rows[j].email[1])].name
                    = rows[j].name

\* C6: after bulk_upload_csv on a batch with the three columns, inserted +
\* updated is the number of rows with an email and a parseable birthday,
\* skipped is the number of the other rows, and every valid row's email is
\* stored with the values of the last valid row that carries it.
C6_BulkCounts ==
    (last.op = "bulk" /\ last.args[1].columns) =>
        LET rows == last.args[1].rows
            valid == { i \in 1 .. Len(rows) : ValidRow(rows[i]) }
            final == { i \in valid :
                        \A j \in valid : rows[j].email = rows[i].email => j <= i }
        IN /\ last.ret[1] + last.ret[2] = Cardinality(valid)
           /\ last.ret[3] = Len(rows) - Cardinality(valid)
           /\ \A i \in final :
                Holds(use_mock_db, mock_employees, employees, rows[i].name,
                      rows[i].email[1], to_datetime(rows[i].birthday)[1])

\* C7 as stated: delete_employee on a name without a match returns False and
\* leaves the store unchanged; on a name with matches it returns True and
\* removes exactly the records with that name.
C7_DeleteByName ==
    [][IsAdminOp("delete") =>
        LET name == last'.args[1]
            matches == CountName(use_mock_db, mock_employees, employees, name)
        IN IF matches = 0
           THEN /\ last'.ret = << FALSE >>
                /\ mock_employees' = mock_employees
                /\ employees' = employees
           ELSE /\ last'.ret = << TRUE >>
                /\ mock_employees' =
                     IF use_mock_db
                     THEN SelectSeq(mock_employees, LAMBDA e : e.name # name)
                     ELSE mock_employees
                /\ employees' =
                     IF use_mock_db THEN employees
                     ELSE { r \in employees : r.name # name }
                /\ StoreSize(use_mock_db', mock_employees', employees')
                     = StoreSize(use_mock_db, mock_employees, employees) - matches]_vars

\* C7 amended: as C7, except that a call on the durable backend whose DELETE
\* or commit raised returns False and leaves the store unchanged.
C7_DeleteByNameUnlessRaised ==
    [][IsAdminOp("delete") =>
        LET name == last'.args[1]
            matches == CountName(use_mock_db, mock_employees, employees, name)
        IN IF matches = 0 \/ last'.raised
           THEN /\ last'.ret = << FALSE >>
                /\ mock_employees' = mock_employees
                /\ employees' = employees
                /\ last'.raised => ~use_mock_db
           ELSE /\ last'.ret = << TRUE >>
                /\ mock_employees' =
                     IF use_mock_db
                     THEN SelectSeq(mock_employees, LAMBDA e : e.name # name)
                     ELSE mock_employees
                /\ employees' =
                     IF use_mock_db THEN employees
                     ELSE { r \in employees : r.name # name }
                /\ StoreSize(use_mock_db', mock_employees', employees')
                     = StoreSize(use_mock_db, mock_employees, employees) - matches]_vars

\* Two records named Alice were stored in memory; delete_employee("Alice")
\* returned True and removed both, leaving the record with another name.
C7_Witness ==
    /\ use_mock_db
    /\ last = [op |-> "delete", args |-> << "Alice" >>, ret |-> << TRUE >>,
               raised |-> FALSE]
    /\ next_uuid = Len(SeedEmployees) + 2
    /\ Len(mock_employees) = 1
    /\ mock_employees[1].name = "Bob"

\* ================================================ frame-effect claim =====
\* last_wished_year as a number: NULL, never wished, is below every year.
LwyNum(v) == IF v = NULL THEN 0 ELSE v[1]
MockRows(list) == { list[i] : i \in 1 .. Len(list) }
\* The emails an add or a bulk upload carries to the store: the email of the
\* form, or the emails of the rows of the file that survive the two dropna.
HitEmails(op) ==
    IF op.op = "add" THEN {op.args[2]}
    ELSE IF op.op = "bulk" /\ op.args[1].columns
    THEN LET kept == dropna_birthday(dropna_email(op.args[1].rows))
         IN { kept[i].email[1] : i \in 1 .. Len(kept) }
    ELSE {}
\* From store S to store T no record lowers its last_wished_year.
NeverDecreases(S, T) ==
    \A r \in S, q \in T : q.id = r.id => LwyNum(q.last_wished_year) >= LwyNum(r.last_wished_year)
\* From S to T every record is kept with its id, email and last_wished_year,
\* and a record whose email is not in hit is kept as it was.
Frame(S, T, hit) ==
    \A r \in S : \E q \in T :
        /\ q.id = r.id
        /\ q.email = r.email
        /\ q.last_wished_year = r.last_wished_year
        /\ r.email \notin hit => q = r
\* A record's last_wished_year changes only in the commit of the UPDATE that
\* follows a successful send to it, and becomes the run's current year; the
\* records of the in-memory store never change it.
OnlySendChangesYear ==
    /\ \A r \in employees, q \in employees' :
          (q.id = r.id /\ q.last_wished_year # r.last_wished_year) =>
              /\ pc = "commit"
              /\ r.id \in SentOk
              /\ q.last_wished_year = current_year
    /\ \A r \in MockRows(mock_employees), q \in MockRows(mock_employees') :
          q.id = r.id => q.last_wished_year = r.last_wished_year

\* C11: over the steps of the admin session and of the notifier runs, no
\* stored record's last_wished_year decreases; an add or bulk upload that
\* hits an existing email leaves that record's id and last_wished_year and
\* every other record unchanged; only the commit after a successful send of
\* a notifier run changes last_wished_year.
C11_YearOnlyMovedBySend ==
    [][/\ NeverDecreases(employees, employees')
       /\ NeverDecreases(MockRows(mock_employees), MockRows(mock_employees'))
       /\ OnlySendChangesYear
       /\ (IsAdminOp("add") \/ IsAdminOp("bulk")) =>
            /\ Frame(employees, employees', HitEmails(last'))
            /\ Frame(MockRows(mock_employees), MockRows(mock_employees'),
                     HitEmails(last'))]_vars

\* The first row of the table was wished on 1 January of the first year, and
\* an add with its email has moved its birthday to 25 December: the row keeps
\* its id and the year it was wished.
C11_Witness ==
    /\ ~use_mock_db
    /\ now = [year |-> FirstYear, doy |-> 1]
    /\ << 1, FirstYear >> \in wished
    /\ last.op = "add"
    /\ last.ret = << TRUE >>
    /\ \E r \in employees :
          /\ r.id = 1
          /\ r.last_wished_year = Val(FirstYear)
          /\ r.birthday = DEC_25
          /\ last.args = << r.name, r.email, r.birthday >>

\* ============================================ backend selection claims ===
\* A step that switches the session from the in-memory to the durable
\* backend (index.py:75-78, 112-115).
Switches == use_mock_db /\ ~use_mock_db'

\* The step after which the session is durable leaves the database with an
\* employees table and with the rows it had.
C12_SwitchEnsuresTable ==
    [][Switches => table_exists' /\ employees' = employees]_vars
\* While the session is in mock mode an add, bulk upload or delete does not
\* touch the durable table: it reads and writes mock_employees only.
C12_MockUntilSwitch ==
    [][(use_mock_db /\ ops' = ops + 1) => employees' = employees]_vars
\* Once durable, the session stays durable and keeps a connection.
C12_NeverReverts ==
    [][~use_mock_db => (~use_mock_db' /\ db_conn' # NULL)]_vars

\* C12: whenever the session switches from the in-memory to the durable
\* backend (AutoConnect or connection_ui), init_real_db has ensured that the
\* employees table exists, creating it if absent and changing no stored row;
\* until the switch every operation targets the in-memory backend, and after
\* it the session never reverts to the in-memory backend.
C12_SwitchInitialisesTable ==
    /\ C12_SwitchEnsuresTable
    /\ C12_MockUntilSwitch
    /\ C12_NeverReverts
====
